---- MODULE Spec2Model ----
(***************************************************************************)
(* Health-monitoring probe (Answers/Monitoring-healthcheck.js).            *)
(*                                                                         *)
(* One Node.js process runs one sweep: checkHealth(backend), an alert if   *)
(* it is unhealthy, checkHealth(frontend), an alert if it is unhealthy,    *)
(* the overall status, the read-modify-write of the day's log file, and    *)
(* process.exit.  Every action is one turn of the event loop (an I/O event *)
(* handler with the promise continuations it releases) or one synchronous  *)
(* step of runHealthCheck; the steps of a turn are chained through pc, and *)
(* I/O events are accepted only while runHealthCheck is parked at an       *)
(* await.                                                                  *)
(*                                                                         *)
(* Spec is one run of the script with clock readings left open.            *)
(* SpecSweeps runs the script again and again on the same disk, SpecTwo    *)
(* puts a second process beside it, SpecTime runs it under a millisecond   *)
(* clock and SpecLive adds what the event loop guarantees to happen.       *)
(***************************************************************************)
EXTENDS Integers, Sequences, FiniteSets, TLC

VARIABLES
    config,     \* CONFIG (lines 8-18): kind of each URL read from the environment
    pc,         \* position of runHealthCheck / main
    probe,      \* per target: the request and the promise of checkHealth
    results,    \* results (line 111): timestamp and checks
    allHealthy, \* allHealthy (line 152)
    alertReq,   \* the POST of the latest sendAlert call and the sink's answer
    alertLog,   \* every sendAlert invocation of the sweep, in order
    sinkPosts,  \* requests actually handed to the webhook sink
    logDir,     \* whether ./logs exists
    logFiles,   \* day -> content of ./logs/health-check-<day>.json
    logFile,    \* logFile (line 169): the day whose partition this sweep writes
    logs,       \* logs (line 170)
    today,      \* calendar day of the wall clock
    console,    \* lines written to stdout / stderr
    rejection,  \* the error runHealthCheck rejected with
    exit,       \* process exit: running, or code and cause
    now,        \* Date.now(): milliseconds of the wall clock
    sweeps,     \* runs of the script so far, and per day those that completed
    peer,       \* a second process of the script at lines 169-175
    app         \* the task UI (Frontend/App.jsx) and the task API's list

vars == <<config, pc, probe, results, allHealthy, alertReq, alertLog,
          sinkPosts, logDir, logFiles, logFile, logs, today, console,
          rejection, exit, now, sweeps, peer, app>>

\* the variables of the sweep's own process and of the disk
vars_sweep == <<config, pc, probe, results, allHealthy, alertReq, alertLog,
                sinkPosts, logDir, logFiles, logFile, logs, today, console,
                rejection, exit>>

-----------------------------------------------------------------------------
(* Bounds of the model *)

MaxDay == 2          \* calendar days the wall clock can reach
MaxPrior == 1        \* reports already in the day's partition at start
MaxSweeps == 2       \* runs of the script, one after the other
MaxTicks == 4        \* ticks the millisecond clock can make
MaxOps == 2          \* operations the user starts in the task UI

(* Program constants *)

TIMEOUT_MS == 10000  \* req.setTimeout(10000, ...) and responseTime: 10000

\* the millisecond clock advances by half a timeout
TickMs == TIMEOUT_MS \div 2

Targets == {"backend", "frontend"}

-----------------------------------------------------------------------------
(* JSON text.  A text is a sequence of tokens; `data += chunk` is          *)
(* concatenation of token sequences.                                       *)

StringLits == {"\"status\"", "\"uptime\"", "\"environment\"",
               "\"OK\"", "\"production\""}
NumberLits == {"3600", "0"}
ScalarLits == StringLits \cup NumberLits \cup {"null", "true", "false"}

ScalarValue(tok) ==
    [type |-> IF tok \in StringLits THEN "string"
              ELSE IF tok \in NumberLits THEN "number"
              ELSE IF tok = "null" THEN "null" ELSE "boolean",
     lit |-> tok,
     keys |-> <<>>,
     members |-> <<>>]

\* an object: its property names in insertion order and their values
ObjectValue(k, m) == [type |-> "object", lit |-> "", keys |-> k, members |-> m]

JSNull == ScalarValue("null")

\* the sequence without its elements equal to x
Without(seq, x) == SelectSeq(seq, LAMBDA y : y # x)

\* members of an object: key : scalar { , key : scalar }.  A key that comes
\* twice keeps its first place and its last value.
RECURSIVE ParseMembers(_)
ParseMembers(toks) ==
    IF Len(toks) < 3 THEN [ok |-> FALSE, keys |-> <<>>, members |-> <<>>]
    ELSE IF ~(toks[1] \in StringLits /\ toks[2] = ":" /\ toks[3] \in ScalarLits)
    THEN [ok |-> FALSE, keys |-> <<>>, members |-> <<>>]
    ELSE LET m == toks[1] :> ScalarValue(toks[3]) IN
         IF Len(toks) = 3 THEN [ok |-> TRUE, keys |-> <<toks[1]>>, members |-> m]
         ELSE IF toks[4] # "," THEN [ok |-> FALSE, keys |-> <<>>, members |-> <<>>]
         ELSE LET rest == ParseMembers(SubSeq(toks, 5, Len(toks))) IN
              IF rest.ok
              THEN [ok |-> TRUE,
                    keys |-> <<toks[1]>> \o Without(rest.keys, toks[1]),
                    members |-> rest.members @@ m]
              ELSE rest

\* JSON.parse(text): threw = TRUE is the SyntaxError it throws
JSONparse(text) ==
    IF Len(text) = 0 THEN [threw |-> TRUE, value |-> JSNull]
    ELSE IF Len(text) = 1
    THEN IF text[1] \in ScalarLits
         THEN [threw |-> FALSE, value |-> ScalarValue(text[1])]
         ELSE [threw |-> TRUE, value |-> JSNull]
    ELSE IF text[1] = "{" /\ text[Len(text)] = "}"
    THEN IF Len(text) = 2
         THEN [threw |-> FALSE, value |-> ObjectValue(<<>>, <<>>)]
         ELSE LET p == ParseMembers(SubSeq(text, 2, Len(text) - 1)) IN
              IF p.ok THEN [threw |-> FALSE, value |-> ObjectValue(p.keys, p.members)]
              ELSE [threw |-> TRUE, value |-> JSNull]
    ELSE [threw |-> TRUE, value |-> JSNull]

\* the text JSON.stringify gives for the members of an object, in the order
\* of its keys
RECURSIVE StringifyMembers(_, _)
StringifyMembers(v, keys) ==
    IF keys = <<>> THEN <<>>
    ELSE <<keys[1], ":", v.members[keys[1]].lit>>
         \o (IF Len(keys) = 1 THEN <<>>
             ELSE <<",">> \o StringifyMembers(v, Tail(keys)))

\* the text JSON.stringify gives for a value
StringifyValue(v) ==
    IF v.type = "object"
    THEN <<"{">> \o StringifyMembers(v, v.keys) \o <<"}">>
    ELSE <<v.lit>>

\* JavaScript truthiness of a parsed value (line 126: if (backendHealth.data))
Truthy(v) ==
    CASE v.type = "object" -> TRUE
      [] v.type = "null" -> FALSE
      [] v.type = "number" -> v.lit # "0"
      [] v.type = "string" -> v.lit # "\"\""
      [] OTHER -> v.lit = "true"

\* property read v.key: undefined when v has no such property
Prop(v, key) ==
    IF v.type = "object" /\ key \in DOMAIN v.members
    THEN v.members[key].lit
    ELSE "undefined"

\* v.key throws a TypeError when v is null
PropThrows(v) == v.type = "null"

-----------------------------------------------------------------------------
(* Inputs from the environment *)

\* BACKEND_URL / FRONTEND_URL: a URL http.get / https.get accepts, or one it
\* throws on (not a URL, or a scheme that is neither http: nor https:)
UrlKinds == {"usable", "unusable"}
HookKinds == {"unset", "https", "http", "malformed"}   \* SLACK_WEBHOOK_URL

StatusCodes == {200, 404}

FullBody == <<"{", "\"status\"", ":", "\"OK\"", ",", "\"uptime\"", ":", "3600",
              ",", "\"environment\"", ":", "\"production\"", "}">>
StatusBody == <<"{", "\"status\"", ":", "\"OK\"", "}">>
TruncatedBody == <<"{", "\"status\"", ":">>
HtmlBody == <<"<!DOCTYPE html>">>
NullBody == <<"null">>
EmptyBody == <<>>

Bodies == {FullBody, StatusBody, NullBody, TruncatedBody, HtmlBody, EmptyBody}

\* error.message of the 'error' event.  Node >= 20 reports a refused
\* dual-stack connect (localhost -> ::1 and 127.0.0.1) as an AggregateError
\* whose message is the empty string.
ErrorMessages == {"connect ECONNREFUSED", ""}

\* error.message of a failed POST to the sink
SinkErrorMessages == {"socket hang up"}

ElapsedSamples == {50, 12000}   \* values of Date.now() - startTime

SinkStatusCodes == {200, 500}

-----------------------------------------------------------------------------
(* State after module load, before runHealthCheck() is called (line 182) *)

NoFile == [kind |-> "absent", doc |-> [isArray |-> FALSE, items |-> <<>>]]
GarbageFile == [kind |-> "garbage", doc |-> [isArray |-> FALSE, items |-> <<>>]]

\* a check result as JSON.stringify writes it: the parsed body is written
\* back as text; numbers, booleans and strings are written as they are
StringifyCheck(c) ==
    IF "data" \in DOMAIN c THEN [c EXCEPT !.data = StringifyValue(@)] ELSE c

\* a report as JSON.stringify writes it
StringifyReport(r) ==
    [timestamp |-> r.timestamp,
     checks |-> [t \in DOMAIN r.checks |-> StringifyCheck(r.checks[t])]]

\* JSON.stringify(logs, null, 2): the text of the document, report by report
JSONstringify(l) ==
    [kind |-> "json",
     doc |-> [isArray |-> l.isArray,
              items |-> [i \in 1..Len(l.items) |-> StringifyReport(l.items[i])]]]

\* mutant of ParseCheck: the body of a check result is not read back
ParseCheck_DropsData(c) ==
    IF "data" \in DOMAIN c THEN [c EXCEPT !.data = JSNull] ELSE c

\* a check result read back by JSON.parse
ParseCheck(c) ==
    IF "data" \in DOMAIN c THEN [c EXCEPT !.data = JSONparse(@).value] ELSE c

\* a report read back by JSON.parse
ParseReport(r) ==
    [timestamp |-> r.timestamp,
     checks |-> [t \in DOMAIN r.checks |-> ParseCheck(r.checks[t])]]

\* JSON.parse(fs.readFileSync(logFile, 'utf8'))
JSONparseFile(f) ==
    IF f.kind = "json"
    THEN [threw |-> FALSE,
          value |-> [isArray |-> f.doc.isArray,
                     items |-> [i \in 1..Len(f.doc.items) |-> ParseReport(f.doc.items[i])]]]
    ELSE [threw |-> TRUE, value |-> [isArray |-> FALSE, items |-> <<>>]]

\* a report written by an earlier sweep of the same day
PriorReport ==
    [timestamp |-> 1,
     checks |-> ("backend" :> [status |-> 200, responseTime |-> 50,
                                healthy |-> TRUE, data |-> JSNull])
                @@ ("frontend" :> [status |-> 200, responseTime |-> 50,
                                   healthy |-> TRUE, data |-> JSNull])]

RECURSIVE PriorLog(_)
PriorLog(n) == IF n = 0 THEN <<>> ELSE Append(PriorLog(n - 1), PriorReport)

InitialFiles ==
    {NoFile, GarbageFile,
     JSONstringify([isArray |-> FALSE, items |-> <<>>])}
    \cup {JSONstringify([isArray |-> TRUE, items |-> PriorLog(n)]) : n \in 0..MaxPrior}

\* startTime (line 32) and the instant of the last activity on the socket,
\* from which the idle timeout of req.setTimeout (line 58) counts
NoRequest == [req |-> "none", statusCode |-> 0, responseTime |-> 0,
              pending |-> <<>>, data |-> <<>>,
              startTime |-> 0, activeAt |-> 0,
              promise |-> [state |-> "none", value |-> <<>>]]

Running == [running |-> TRUE, code |-> -1, cause |-> "none"]

\* the first run of the script, nothing completed yet
FirstSweep == [started |-> 1, completed |-> [d \in 1..MaxDay |-> 0]]

\* the report of the second process
PeerReport ==
    [timestamp |-> 1,
     checks |-> ("backend" :> [status |-> 0, responseTime |-> TIMEOUT_MS,
                                healthy |-> FALSE, error |-> "Timeout"])
                @@ ("frontend" :> [status |-> 200, responseTime |-> 50,
                                   healthy |-> TRUE, data |-> JSNull])]

\* no second process
NoPeer == [pc |-> "none", logFile |-> 0, logs |-> [isArray |-> TRUE, items |-> <<>>]]

\* no POST to the sink so far
NoAlert == [state |-> "none", statusCode |-> 0]

\* no operation of the task UI in this slot
NoOp == [phase |-> "none", kind |-> "none", id |-> 0, completed |-> FALSE,
         seen |-> <<>>, ok |-> FALSE, reply |-> [id |-> 0, completed |-> FALSE]]

\* the tasks the API holds when the page is opened
InitialTasks == <<[id |-> 1, completed |-> FALSE]>>

\* App after fetchTasks (lines 17-35): tasks is the API's list, no error
LoadedApp ==
    [tasks |-> InitialTasks,
     error |-> "null",
     server |-> {InitialTasks[i] : i \in 1..Len(InitialTasks)},
     nextId |-> Len(InitialTasks) + 1,
     started |-> 0,
     ops |-> [slot \in 1..MaxOps |-> NoOp]]

Init ==
    /\ config \in [backend : UrlKinds, frontend : UrlKinds, slack_webhook : HookKinds]
    /\ pc = "start"
    /\ probe = [t \in Targets |-> NoRequest]
    /\ results = [timestamp |-> 0, checks |-> <<>>]
    /\ allHealthy = FALSE
    /\ alertReq = NoAlert
    /\ alertLog = <<>>
    /\ sinkPosts = 0
    /\ logDir \in BOOLEAN
    /\ \E f \in InitialFiles :
          /\ (~logDir => f = NoFile)
          /\ logFiles = [d \in 1..MaxDay |-> IF d = 1 THEN f ELSE NoFile]
    /\ logFile = 0
    /\ logs = [isArray |-> TRUE, items |-> <<>>]
    /\ today = 1
    /\ console = <<>>
    /\ rejection = "none"
    /\ exit = Running
    /\ now = 0
    /\ sweeps = FirstSweep
    /\ peer = NoPeer
    /\ app = LoadedApp

-----------------------------------------------------------------------------
(* Helpers of the actions *)

AwaitPc(t) == IF t = "backend" THEN "awaitBackend" ELSE "awaitFrontend"
BranchPc(t) == IF t = "backend" THEN "backendBranch" ELSE "frontendBranch"
AlertPc(t) == IF t = "backend" THEN "awaitBackendAlert" ELSE "awaitFrontendAlert"
AfterPc(t) == IF t = "backend" THEN "frontendStart" ELSE "overall"

\* runHealthCheck is parked at an await: the event loop takes I/O events
AwaitStates == {"awaitBackend", "awaitBackendAlert", "awaitFrontend",
                "awaitFrontendAlert"}

Out(text, arg) == [stream |-> "stdout", text |-> text, arg |-> arg]
Err(text, arg) == [stream |-> "stderr", text |-> text, arg |-> arg]

\* mutant of Resolve: every call sets the value
Resolve_Overwrites(p, value) == [state |-> "resolved", value |-> value]

\* resolve(value) of `new Promise((resolve) => ...)` (line 30): the first call
\* settles the promise, later calls change nothing
Resolve(p, value) ==
    IF p.state = "pending" THEN [state |-> "resolved", value |-> value] ELSE p

\* the request of target t is over before the response ended, with its
\* promise in state q: the locals of the response callback (responseTime,
\* data) are unreachable from then on
Closed(t, req, q) ==
    [probe EXCEPT ![t] = [NoRequest EXCEPT !.req = req, !.promise = q,
                                           !.startTime = probe[t].startTime]]

\* mutant of EndResult: the parsed body is not kept
EndResult_DropsData(statusCode, responseTime, value) ==
    [status |-> statusCode,
     responseTime |-> responseTime,
     healthy |-> statusCode = 200,
     data |-> JSNull]

\* mutant of EndResult: every response counts as healthy
EndResult_AlwaysHealthy(statusCode, responseTime, value) ==
    [status |-> statusCode,
     responseTime |-> responseTime,
     healthy |-> TRUE,
     data |-> value]

\* the object passed to resolve at 'end' (lines 40-45)
EndResult(statusCode, responseTime, value) ==
    [status |-> statusCode,
     responseTime |-> responseTime,
     healthy |-> statusCode = 200,
     data |-> value]

\* the object passed to resolve at 'error' (lines 50-55)
ErrorResult(elapsed, message) ==
    [status |-> 0, responseTime |-> elapsed, healthy |-> FALSE, error |-> message]

\* the object passed to resolve at the timeout (lines 60-65)
TimeoutResult ==
    [status |-> 0, responseTime |-> TIMEOUT_MS, healthy |-> FALSE, error |-> "Timeout"]

\* check.error as a template or `||` operand: undefined when the field is absent
ErrorOf(r) == IF "error" \in DOMAIN r THEN r.error ELSE "undefined"

\* backendHealth.error || 'Unknown error' (lines 132, 147)
ErrorOrUnknown(r) ==
    IF ErrorOf(r) \in {"undefined", ""} THEN "Unknown error" ELSE ErrorOf(r)

\* mutant of EveryHealthy: some instead of every
EveryHealthy_Some(checks) == \E t \in DOMAIN checks : checks[t].healthy

\* Object.values(results.checks).every(check => check.healthy) (line 152)
EveryHealthy(checks) == \A t \in DOMAIN checks : checks[t].healthy

\* checkHealth(url) up to the return of the promise (lines 29-34, 49-67):
\* protocol.get throws inside the executor for a URL it cannot use, which
\* rejects the promise, and the await in runHealthCheck rethrows
StartCheck(t) ==
    IF config[t] = "unusable"
    THEN /\ probe' = [probe EXCEPT ![t].promise =
                         [state |-> "rejected", value |-> <<>>]]
         /\ rejection' = "ERR_INVALID_URL"
         /\ pc' = "rejected"
    ELSE /\ probe' = [probe EXCEPT ![t].req = "inflight",
                                   ![t].startTime = now,
                                   ![t].activeAt = now,
                                   ![t].promise = [state |-> "pending", value |-> <<>>]]
         /\ rejection' = rejection
         /\ pc' = AwaitPc(t)

-----------------------------------------------------------------------------
(* runHealthCheck up to its first await (lines 105-119) *)

RunHealthCheck ==
    /\ pc = "start"
    /\ exit.running
    /\ results' = [timestamp |-> today, checks |-> <<>>]
    /\ console' = console \o <<Out("Running Health Check...", ""),
                               Out("Checking Backend API...", "")>>
    /\ StartCheck("backend")
    /\ UNCHANGED <<now, sweeps, peer, app, config, allHealthy, alertReq, alertLog, sinkPosts, logDir,
                   logFiles, logFile, logs, today, exit>>

-----------------------------------------------------------------------------
(* Events of the request of checkHealth *)

\* req.on('error', ...) (lines 49-56), elapsed being Date.now() - startTime
ReqErrorAt(t, elapsed) ==
    /\ exit.running
    /\ pc \in AwaitStates
    /\ probe[t].req \in {"inflight", "responding"}
    /\ \E message \in ErrorMessages :
          probe' = Closed(t, "closed",
                          Resolve(probe[t].promise, ErrorResult(elapsed, message)))
    /\ pc' = IF pc = AwaitPc(t) /\ probe[t].promise.state = "pending"
             THEN BranchPc(t) ELSE pc
    /\ UNCHANGED <<now, sweeps, peer, app, config, results, allHealthy, alertReq, alertLog, sinkPosts,
                   logDir, logFiles, logFile, logs, today, console, rejection, exit>>

\* the 'error' event with any reading of the clock
ReqError(t) == \E elapsed \in ElapsedSamples : ReqErrorAt(t, elapsed)

\* req.setTimeout(10000, ...) (lines 58-66): req.destroy(), then resolve.
\* Destroying a request that has no response yet makes it emit 'error'
\* (socket hang up) afterwards.
ReqTimeout(t) ==
    /\ exit.running
    /\ pc \in AwaitStates
    /\ probe[t].req \in {"inflight", "responding"}
    /\ probe' = Closed(t, IF probe[t].req = "inflight" THEN "destroyed" ELSE "closed",
                       Resolve(probe[t].promise, TimeoutResult))
    /\ pc' = IF pc = AwaitPc(t) /\ probe[t].promise.state = "pending"
             THEN BranchPc(t) ELSE pc
    /\ UNCHANGED <<now, sweeps, peer, app, config, results, allHealthy, alertReq, alertLog, sinkPosts,
                   logDir, logFiles, logFile, logs, today, console, rejection, exit>>

\* the 'error' event of a destroyed request reaches the handler of lines 49-56
ReqErrorAfterDestroy(t) ==
    /\ exit.running
    /\ pc \in AwaitStates
    /\ probe[t].req = "destroyed"
    /\ \E elapsed \in ElapsedSamples :
          probe' = Closed(t, "hungUp",
                          Resolve(probe[t].promise, ErrorResult(elapsed, "socket hang up")))
    /\ UNCHANGED <<now, sweeps, peer, app, config, pc, results, allHealthy, alertReq, alertLog, sinkPosts,
                   logDir, logFiles, logFile, logs, today, console, rejection, exit>>

\* the response callback (lines 34-38): responseTime is taken here, elapsed
\* being Date.now() - startTime
ResponseAt(t, elapsed) ==
    /\ exit.running
    /\ pc \in AwaitStates
    /\ probe[t].req = "inflight"
    /\ \E statusCode \in StatusCodes, body \in Bodies :
          probe' = [probe EXCEPT
                       ![t].req = "responding",
                       ![t].statusCode = statusCode,
                       ![t].responseTime = elapsed,
                       ![t].activeAt = now,
                       ![t].pending = body,
                       ![t].data = <<>>]
    /\ UNCHANGED <<now, sweeps, peer, app, config, pc, results, allHealthy, alertReq, alertLog, sinkPosts,
                   logDir, logFiles, logFile, logs, today, console, rejection, exit>>

\* the response callback with any reading of the clock
Response(t) == \E elapsed \in ElapsedSamples : ResponseAt(t, elapsed)

\* res.on('data', chunk => data += chunk) (line 38)
ResData(t) ==
    /\ exit.running
    /\ pc \in AwaitStates
    /\ probe[t].req = "responding"
    /\ \E n \in 1..Len(probe[t].pending) :
          probe' = [probe EXCEPT
                       ![t].data = @ \o SubSeq(probe[t].pending, 1, n),
                       ![t].activeAt = now,
                       ![t].pending = SubSeq(@, n + 1, Len(@))]
    /\ UNCHANGED <<now, sweeps, peer, app, config, pc, results, allHealthy, alertReq, alertLog, sinkPosts,
                   logDir, logFiles, logFile, logs, today, console, rejection, exit>>

\* res.on('end', ...) (lines 39-46).  JSON.parse runs in the event callback,
\* outside the promise executor: the SyntaxError it throws is an uncaught
\* exception, which ends the process with code 1 and leaves the promise
\* pending.
ResEnd(t) ==
    /\ exit.running
    /\ pc \in AwaitStates
    /\ probe[t].req = "responding"
    /\ probe[t].pending = <<>>
    /\ LET data == probe[t].data
           parsed == IF data # <<>> THEN JSONparse(data)
                     ELSE [threw |-> FALSE, value |-> JSNull]
       IN  IF parsed.threw
           THEN /\ probe' = [probe EXCEPT ![t].req = "ended"]
                /\ console' = Append(console, Err("Uncaught SyntaxError", t))
                /\ exit' = [running |-> FALSE, code |-> 1, cause |-> "uncaughtException"]
                /\ pc' = "exited"
           ELSE /\ probe' = [probe EXCEPT
                                ![t].req = "ended",
                                ![t].promise = Resolve(@,
                                    EndResult(probe[t].statusCode,
                                              probe[t].responseTime, parsed.value))]
                /\ pc' = IF pc = AwaitPc(t) /\ probe[t].promise.state = "pending"
                         THEN BranchPc(t) ELSE pc
                /\ UNCHANGED <<console, exit>>
    /\ UNCHANGED <<now, sweeps, peer, app, config, results, allHealthy, alertReq, alertLog, sinkPosts,
                   logDir, logFiles, logFile, logs, today, rejection>>

\* The connection closes cleanly before the response is complete: res emits
\* 'aborted' and 'close', never 'end', and the request emits no 'error'.
\* The callback of lines 34-47 listens to 'data' and 'end' only.
ResAborted(t) ==
    /\ exit.running
    /\ pc \in AwaitStates
    /\ probe[t].req = "responding"
    /\ probe' = Closed(t, "closed", probe[t].promise)
    /\ UNCHANGED <<now, sweeps, peer, app, config, pc, results, allHealthy, alertReq, alertLog, sinkPosts,
                   logDir, logFiles, logFile, logs, today, console, rejection, exit>>

\* Nothing is left to wait for while the promise awaited at line 119 or 138
\* is still pending: Node leaves the event loop and the process ends with
\* code 0; the handlers of lines 183-187 never run.
EventLoopDrained ==
    /\ exit.running
    /\ \E t \in Targets :
          /\ pc = AwaitPc(t)
          /\ probe[t].req = "closed"
          /\ probe[t].promise.state = "pending"
    /\ exit' = [running |-> FALSE, code |-> 0, cause |-> "eventLoopEmpty"]
    /\ pc' = "exited"
    /\ UNCHANGED <<now, sweeps, peer, app, config, probe, results, allHealthy, alertReq, alertLog,
                   sinkPosts, logDir, logFiles, logFile, logs, today, console,
                   rejection>>

-----------------------------------------------------------------------------
(* sendAlert (lines 71-102) *)

AlertMessage(t, r) == [target |-> t, error |-> ErrorOf(r)]

\* mutant of SendAlert: no guard at line 75, so that with no webhook
\* configured new URL(undefined) throws and the catch block logs it
SendAlert_NoGuard(t, message, lines) ==
    /\ alertLog' = Append(alertLog, message)
    /\ LET alertLine == Out("ALERT", message.error) IN
       IF config.slack_webhook \in {"unset", "malformed", "http"}
       THEN /\ console' = console \o lines \o
                   <<alertLine, Err("Failed to send Slack alert:", "Invalid URL")>>
            /\ UNCHANGED <<alertReq, sinkPosts>>
            /\ pc' = AfterPc(t)
       ELSE /\ console' = console \o lines \o <<alertLine>>
            /\ alertReq' = [state |-> "inflight", statusCode |-> 0]
            /\ sinkPosts' = sinkPosts + 1
            /\ pc' = AlertPc(t)

\* mutant of SendAlert: the caller does not await the POST
SendAlert_NotAwaited(t, message, lines) ==
    /\ alertLog' = Append(alertLog, message)
    /\ LET alertLine == Out("ALERT", message.error) IN
       IF config.slack_webhook \in {"unset", "malformed", "http"}
       THEN /\ console' = console \o lines \o <<alertLine>>
            /\ UNCHANGED <<alertReq, sinkPosts>>
            /\ pc' = AfterPc(t)
       ELSE /\ console' = console \o lines \o <<alertLine>>
            /\ alertReq' = [state |-> "inflight", statusCode |-> 0]
            /\ sinkPosts' = sinkPosts + 1
            /\ pc' = AfterPc(t)

\* mutant of SendAlert: no alert for a target that the last report of the
\* day's partition already shows unhealthy
SendAlert_Dedup(t, message, lines) ==
    LET f == logFiles[today]
        known == /\ f.kind = "json"
                 /\ Len(f.doc.items) > 0
                 /\ ~f.doc.items[Len(f.doc.items)].checks[t].healthy
        alertLine == Out("ALERT", message.error)
    IN  IF known
        THEN /\ console' = console \o lines
             /\ UNCHANGED <<alertLog, alertReq, sinkPosts>>
             /\ pc' = AfterPc(t)
        ELSE /\ alertLog' = Append(alertLog, message)
             /\ IF config.slack_webhook # "https"
                THEN /\ console' = console \o lines \o <<alertLine>>
                     /\ UNCHANGED <<alertReq, sinkPosts>>
                     /\ pc' = AfterPc(t)
                ELSE /\ console' = console \o lines \o <<alertLine>>
                     /\ alertReq' = [state |-> "inflight", statusCode |-> 0]
                     /\ sinkPosts' = sinkPosts + 1
                     /\ pc' = AlertPc(t)

\* sendAlert(message) up to its await (lines 71-97), called from the branch
\* of target t; lines is what the caller printed before
SendAlert(t, message, lines) ==
    /\ alertLog' = Append(alertLog, message)
    /\ LET alertLine == Out("ALERT", message.error) IN
       CASE config.slack_webhook = "unset" ->
               \* line 75: nothing to do
               /\ console' = console \o lines \o <<alertLine>>
               /\ UNCHANGED <<alertReq, sinkPosts>>
               /\ pc' = AfterPc(t)
         [] config.slack_webhook = "malformed" ->
               \* line 91: new URL throws, caught at line 98
               /\ console' = console \o lines \o
                      <<alertLine, Err("Failed to send Slack alert:", "Invalid URL")>>
               /\ UNCHANGED <<alertReq, sinkPosts>>
               /\ pc' = AfterPc(t)
         [] config.slack_webhook = "http" ->
               \* line 93: https.request throws for a protocol other than
               \* https:, which rejects the promise, caught at line 98
               /\ console' = console \o lines \o
                      <<alertLine, Err("Failed to send Slack alert:", "Protocol not supported")>>
               /\ UNCHANGED <<alertReq, sinkPosts>>
               /\ pc' = AfterPc(t)
         [] OTHER ->
               \* lines 93-96: the POST is on its way
               /\ console' = console \o lines \o <<alertLine>>
               /\ alertReq' = [state |-> "inflight", statusCode |-> 0]
               /\ sinkPosts' = sinkPosts + 1
               /\ pc' = AlertPc(t)

\* https.request(url, options, resolve) (line 93): the response callback is
\* resolve itself, so a response of any status code resolves the promise and
\* nothing looks at res.statusCode
AlertResponse ==
    /\ exit.running
    /\ pc \in {"awaitBackendAlert", "awaitFrontendAlert"}
    /\ alertReq.state = "inflight"
    /\ \E statusCode \in SinkStatusCodes :
          alertReq' = [state |-> "responded", statusCode |-> statusCode]
    /\ pc' = IF pc = "awaitBackendAlert" THEN AfterPc("backend") ELSE AfterPc("frontend")
    /\ UNCHANGED <<now, sweeps, peer, app, config, probe, results, allHealthy, alertLog, sinkPosts, logDir,
                   logFiles, logFile, logs, today, console, rejection, exit>>

\* mutant of AlertError: no try/catch around the await, the rejection reaches
\* runHealthCheck
AlertError_Rejects ==
    /\ exit.running
    /\ pc \in {"awaitBackendAlert", "awaitFrontendAlert"}
    /\ alertReq.state = "inflight"
    /\ alertReq' = [state |-> "failed", statusCode |-> 0]
    /\ rejection' = "sendAlert failed"
    /\ pc' = "rejected"
    /\ UNCHANGED <<now, sweeps, peer, app, config, probe, results, allHealthy, alertLog, sinkPosts, logDir,
                   logFiles, logFile, logs, today, console, exit>>

\* req.on('error', reject) (line 94), caught at lines 98-100
AlertError ==
    /\ exit.running
    /\ pc \in {"awaitBackendAlert", "awaitFrontendAlert"}
    /\ alertReq.state = "inflight"
    /\ alertReq' = [state |-> "failed", statusCode |-> 0]
    /\ \E message \in SinkErrorMessages :
          console' = Append(console, Err("Failed to send Slack alert:", message))
    /\ pc' = IF pc = "awaitBackendAlert" THEN AfterPc("backend") ELSE AfterPc("frontend")
    /\ UNCHANGED <<now, sweeps, peer, app, config, probe, results, allHealthy, alertLog, sinkPosts, logDir,
                   logFiles, logFile, logs, today, rejection, exit>>

-----------------------------------------------------------------------------
(* runHealthCheck after each probe (lines 120-134, 139-149) *)

\* mutant of IsHealthy: any HTTP response counts as healthy
IsHealthy_AnyResponse(r) == r.status # 0

\* if (backendHealth.healthy) / if (frontendHealth.healthy) (lines 122, 141)
IsHealthy(r) == r.healthy

\* if (backendHealth.data) (line 126): only the backend branch reads the body
ReadsData(t, r) == t = "backend" /\ Truthy(r.data)

\* lines printed for a healthy target (lines 123-129, 142-144)
HealthyLines(t, r) ==
    <<Out("healthy", t), Out("Status:", r.status), Out("Response Time:", r.responseTime)>>
    \o (IF ReadsData(t, r)
        THEN <<Out("Uptime:", Prop(r.data, "\"uptime\"")),
               Out("Environment:", Prop(r.data, "\"environment\""))>>
        ELSE <<>>)

\* lines printed for an unhealthy target (lines 131-132, 146-147)
UnhealthyLines(t, r) ==
    <<Out("unhealthy", t), Out("Error:", ErrorOrUnknown(r))>>

Branch(t) ==
    /\ pc = BranchPc(t)
    /\ exit.running
    /\ LET r == probe[t].promise.value IN
       /\ results' = [results EXCEPT !.checks = (t :> r) @@ @]
       /\ IF IsHealthy(r)
          THEN IF ReadsData(t, r) /\ PropThrows(r.data)
               THEN \* line 127 throws: runHealthCheck rejects
                    /\ console' = console \o SubSeq(HealthyLines(t, r), 1, 3)
                    /\ rejection' = "TypeError"
                    /\ pc' = "rejected"
                    /\ UNCHANGED <<alertReq, alertLog, sinkPosts>>
               ELSE /\ console' = console \o HealthyLines(t, r)
                    /\ pc' = AfterPc(t)
                    /\ UNCHANGED <<alertReq, alertLog, sinkPosts, rejection>>
          ELSE /\ SendAlert(t, AlertMessage(t, r), UnhealthyLines(t, r))
               /\ UNCHANGED rejection
    /\ UNCHANGED <<now, sweeps, peer, app, config, probe, allHealthy, logDir, logFiles, logFile, logs,
                   today, exit>>

\* lines 136-138
CheckFrontend ==
    /\ pc = "frontendStart"
    /\ exit.running
    /\ console' = Append(console, Out("Checking Frontend...", ""))
    /\ StartCheck("frontend")
    /\ UNCHANGED <<now, sweeps, peer, app, config, results, allHealthy, alertReq, alertLog, sinkPosts,
                   logDir, logFiles, logFile, logs, today, exit>>

\* lines 151-160
Overall ==
    /\ pc = "overall"
    /\ exit.running
    /\ allHealthy' = EveryHealthy(results.checks)
    /\ console' = Append(console,
                     IF allHealthy' THEN Out("All systems operational", "")
                     ELSE Out("Some systems are down", ""))
    /\ pc' = "mkdir"
    /\ UNCHANGED <<now, sweeps, peer, app, config, probe, results, alertReq, alertLog, sinkPosts, logDir,
                   logFiles, logFile, logs, today, rejection, exit>>

-----------------------------------------------------------------------------
(* Saving the results (lines 162-177) *)

\* lines 163-167: fs.mkdirSync can throw (EACCES, EROFS, ...)
MakeLogDir ==
    /\ pc = "mkdir"
    /\ exit.running
    /\ IF logDir
       THEN /\ pc' = "read"
            /\ UNCHANGED <<logDir, rejection>>
       ELSE \E ok \in BOOLEAN :
               IF ok
               THEN /\ logDir' = TRUE
                    /\ pc' = "read"
                    /\ UNCHANGED rejection
               ELSE /\ rejection' = "mkdirSync failed"
                    /\ pc' = "rejected"
                    /\ UNCHANGED logDir
    /\ UNCHANGED <<now, sweeps, peer, app, config, probe, results, allHealthy, alertReq, alertLog,
                   sinkPosts, logFiles, logFile, logs, today, console, exit>>

\* lines 169-173: the file name is built from the date at this moment
ReadLogFile ==
    /\ pc = "read"
    /\ exit.running
    /\ logFile' = today
    /\ IF logFiles[today].kind = "absent"
       THEN /\ logs' = [isArray |-> TRUE, items |-> <<>>]
            /\ pc' = "write"
            /\ UNCHANGED rejection
       ELSE \E readable \in BOOLEAN :
               LET parsed == JSONparseFile(logFiles[today]) IN
               IF ~readable
               THEN /\ rejection' = "readFileSync failed"
                    /\ pc' = "rejected"
                    /\ UNCHANGED logs
               ELSE IF parsed.threw
               THEN /\ rejection' = "SyntaxError"
                    /\ pc' = "rejected"
                    /\ UNCHANGED logs
               ELSE /\ logs' = parsed.value
                    /\ pc' = "write"
                    /\ UNCHANGED rejection
    /\ UNCHANGED <<now, sweeps, peer, app, config, probe, results, allHealthy, alertReq, alertLog,
                   sinkPosts, logDir, logFiles, today, console, exit>>

\* mutant of WriteLogFile: the report is appended to what the file holds at
\* the moment of the write, not to what was read at line 172
WriteLogFile_Rereads ==
    /\ pc = "write"
    /\ exit.running
    /\ logs' = [logs EXCEPT !.items = Append(@, results)]
    /\ logFiles' = [logFiles EXCEPT ![logFile] =
          JSONstringify([isArray |-> TRUE,
                         items |-> Append(JSONparseFile(logFiles[logFile]).value.items,
                                          results)])]
    /\ pc' = "returned"
    /\ UNCHANGED <<now, sweeps, peer, app, config, probe, results, allHealthy, alertReq,
                   alertLog, sinkPosts, logDir, logFile, today, console, exit,
                   rejection>>

\* lines 174-177: logs.push throws when the document is not an array;
\* writeFileSync can fail before it opens the file (EACCES) or after it
\* has truncated it (ENOSPC, EIO)
WriteLogFile ==
    /\ pc = "write"
    /\ exit.running
    /\ IF ~logs.isArray
       THEN /\ rejection' = "TypeError: logs.push is not a function"
            /\ pc' = "rejected"
            /\ UNCHANGED <<logs, logFiles>>
       ELSE /\ logs' = [logs EXCEPT !.items = Append(@, results)]
            /\ \E outcome \in {"written", "EACCES", "ENOSPC"} :
                  CASE outcome = "written" ->
                          /\ logFiles' = [logFiles EXCEPT ![logFile] = JSONstringify(logs')]
                          /\ pc' = "returned"
                          /\ UNCHANGED rejection
                    [] outcome = "EACCES" ->
                          /\ rejection' = "writeFileSync failed"
                          /\ pc' = "rejected"
                          /\ UNCHANGED logFiles
                    [] OTHER ->
                          /\ logFiles' = [logFiles EXCEPT ![logFile] = GarbageFile]
                          /\ rejection' = "writeFileSync failed"
                          /\ pc' = "rejected"
    /\ UNCHANGED <<now, sweeps, peer, app, config, probe, results, allHealthy, alertReq, alertLog,
                   sinkPosts, logDir, logFile, today, console, exit>>

-----------------------------------------------------------------------------
(* main (lines 181-188) *)

\* healthy ? 0 : 1 (line 183)
ThenExitCode(healthy) == IF healthy THEN 0 ELSE 1

\* .then(healthy => process.exit(healthy ? 0 : 1)) (line 183)
MainThen ==
    /\ pc = "returned"
    /\ exit.running
    /\ exit' = [running |-> FALSE, code |-> ThenExitCode(allHealthy), cause |-> "then"]
    /\ pc' = "exited"
    /\ UNCHANGED <<now, sweeps, peer, app, config, probe, results, allHealthy, alertReq, alertLog,
                   sinkPosts, logDir, logFiles, logFile, logs, today, console,
                   rejection>>

\* mutant of MainCatch: the rejection is logged but process.exit(1) is
\* missing, so the process ends with code 0
MainCatch_NoExitCode ==
    /\ pc = "rejected"
    /\ exit.running
    /\ console' = Append(console, Err("Health check failed:", rejection))
    /\ exit' = [running |-> FALSE, code |-> 0, cause |-> "catch"]
    /\ pc' = "exited"
    /\ UNCHANGED <<now, sweeps, peer, app, config, probe, results, allHealthy, alertReq, alertLog,
                   sinkPosts, logDir, logFiles, logFile, logs, today, rejection>>

\* .catch(error => { console.error(...); process.exit(1); }) (lines 184-187)
MainCatch ==
    /\ pc = "rejected"
    /\ exit.running
    /\ console' = Append(console, Err("Health check failed:", rejection))
    /\ exit' = [running |-> FALSE, code |-> 1, cause |-> "catch"]
    /\ pc' = "exited"
    /\ UNCHANGED <<now, sweeps, peer, app, config, probe, results, allHealthy, alertReq, alertLog,
                   sinkPosts, logDir, logFiles, logFile, logs, today, rejection>>

\* the calendar day changes while the sweep waits for I/O
Midnight ==
    /\ exit.running
    /\ pc \in AwaitStates
    /\ today < MaxDay
    /\ today' = today + 1
    /\ UNCHANGED <<now, sweeps, peer, app, config, pc, probe, results, allHealthy, alertReq, alertLog,
                   sinkPosts, logDir, logFiles, logFile, logs, console,
                   rejection, exit>>

-----------------------------------------------------------------------------

Next ==
    \/ RunHealthCheck
    \/ \E t \in Targets : ReqError(t)
    \/ \E t \in Targets : ReqTimeout(t)
    \/ \E t \in Targets : ReqErrorAfterDestroy(t)
    \/ \E t \in Targets : Response(t)
    \/ \E t \in Targets : ResData(t)
    \/ \E t \in Targets : ResEnd(t)
    \/ \E t \in Targets : ResAborted(t)
    \/ EventLoopDrained
    \/ \E t \in Targets : Branch(t)
    \/ AlertResponse
    \/ AlertError
    \/ CheckFrontend
    \/ Overall
    \/ MakeLogDir
    \/ ReadLogFile
    \/ WriteLogFile
    \/ MainThen
    \/ MainCatch
    \/ Midnight

Spec == Init /\ [][Next]_vars

-----------------------------------------------------------------------------
(* Vocabulary of the properties *)

\* error details of a transport failure (lines 54, 64)
TransportDetails == ErrorMessages \cup {"Timeout", "socket hang up"}

\* rejections of runHealthCheck raised by lines 162-175
PersistenceFailures ==
    {"mkdirSync failed", "readFileSync failed", "SyntaxError",
     "TypeError: logs.push is not a function", "writeFileSync failed"}

\* the value a JSON text gives to a key: the token after the last `key :`
BodyField(text, key) ==
    LET at == {i \in 1..(Len(text) - 2) : text[i] = key /\ text[i + 1] = ":"} IN
    IF at = {} THEN "undefined"
    ELSE text[(CHOOSE i \in at : \A j \in at : j <= i) + 2]

\* bodies that are well-formed JSON
WellFormedBodies == {FullBody, StatusBody, NullBody}

\* number of sendAlert invocations for target t
AlertCount(t) == Cardinality({i \in 1..Len(alertLog) : alertLog[i].target = t})

\* runHealthCheck returned (line 177)
SweepReturned == pc = "returned" \/ (pc = "exited" /\ exit.cause = "then")

\* line 152 has run
AfterOverall ==
    \/ pc \in {"mkdir", "read", "write"}
    \/ SweepReturned
    \/ (pc \in {"rejected", "exited"} /\ rejection \in PersistenceFailures)

-----------------------------------------------------------------------------
(* Sweeps one after the other: the script is run again when the process   *)
(* of the previous run has ended, on the same disk and under the same     *)
(* clock.                                                                  *)

\* the targets behave in a few ways only: no answer at all, a refused
\* connection, or a 200 with a small JSON body or with no body; the sink
\* answers 200 or fails
SmallWorld ==
    /\ \A t \in Targets :
          /\ probe[t].statusCode \in {0, 200}
          /\ probe[t].responseTime \in {0, 50}
          /\ probe[t].data \o probe[t].pending \in {EmptyBody, StatusBody}
          /\ probe[t].promise.state = "resolved"
                => /\ probe[t].promise.value.responseTime \in {50, TIMEOUT_MS}
                   /\ ErrorOf(probe[t].promise.value)
                         \in {"undefined", "Timeout", "connect ECONNREFUSED"}
    /\ alertReq.statusCode \in {0, 200}

InitSweeps ==
    /\ Init
    /\ config = [backend |-> "usable", frontend |-> "usable", slack_webhook |-> "https"]
    /\ logDir
    /\ logFiles = [d \in 1..MaxDay |-> NoFile]

\* `node Monitoring-healthcheck.js` again, after the previous process ended:
\* a new process (module load, line 182) on the disk the previous one left
NextSweep ==
    /\ ~exit.running
    /\ sweeps.started < MaxSweeps
    /\ sweeps' = [started |-> sweeps.started + 1,
                  completed |-> IF exit.cause = "then"
                                THEN [sweeps.completed EXCEPT ![logFile] = @ + 1]
                                ELSE sweeps.completed]
    /\ pc' = "start"
    /\ probe' = [t \in Targets |-> NoRequest]
    /\ results' = [timestamp |-> 0, checks |-> <<>>]
    /\ allHealthy' = FALSE
    /\ alertReq' = NoAlert
    /\ alertLog' = <<>>
    /\ sinkPosts' = 0
    /\ logFile' = 0
    /\ logs' = [isArray |-> TRUE, items |-> <<>>]
    /\ console' = <<>>
    /\ rejection' = "none"
    /\ exit' = Running
    /\ UNCHANGED <<now, peer, app, config, logDir, logFiles, today>>

NextSweeps ==
    \/ RunHealthCheck
    \/ \E t \in Targets : ReqError(t) /\ SmallWorld'
    \/ \E t \in Targets : ReqTimeout(t)
    \/ \E t \in Targets : ReqErrorAfterDestroy(t)
    \/ \E t \in Targets : Response(t) /\ SmallWorld'
    \/ \E t \in Targets : ResData(t)
    \/ \E t \in Targets : ResEnd(t)
    \/ \E t \in Targets : ResAborted(t)
    \/ EventLoopDrained
    \/ \E t \in Targets : Branch(t)
    \/ AlertResponse /\ SmallWorld'
    \/ AlertError
    \/ CheckFrontend
    \/ Overall
    \/ MakeLogDir
    \/ ReadLogFile
    \/ WriteLogFile
    \/ MainThen
    \/ MainCatch
    \/ Midnight
    \/ NextSweep

SpecSweeps == InitSweeps /\ [][NextSweeps]_vars

-----------------------------------------------------------------------------
(* Two processes of the script on the same disk: beside the sweep above, a *)
(* second process that has its report and is at line 169.                  *)

InitTwo ==
    /\ Init
    /\ config = [backend |-> "usable", frontend |-> "usable", slack_webhook |-> "unset"]
    /\ logDir
    /\ logFiles[1].kind \in {"absent", "json"}
    /\ logFiles[1].doc.isArray \/ logFiles[1].kind = "absent"

\* the second process starts its recorder
PeerStart ==
    /\ peer.pc = "none"
    /\ peer' = [peer EXCEPT !.pc = "read"]
    /\ UNCHANGED <<vars_sweep, now, sweeps, app>>

\* lines 169-173 in the second process
PeerRead ==
    /\ peer.pc = "read"
    /\ LET parsed == JSONparseFile(logFiles[today]) IN
       peer' = IF logFiles[today].kind = "absent"
               THEN [pc |-> "write", logFile |-> today,
                     logs |-> [isArray |-> TRUE, items |-> <<>>]]
               ELSE IF parsed.threw
               THEN [peer EXCEPT !.pc = "failed", !.logFile = today]
               ELSE [pc |-> "write", logFile |-> today, logs |-> parsed.value]
    /\ UNCHANGED <<vars_sweep, now, sweeps, app>>

\* lines 174-175 in the second process
PeerWrite ==
    /\ peer.pc = "write"
    /\ IF ~peer.logs.isArray
       THEN /\ peer' = [peer EXCEPT !.pc = "failed"]
            /\ UNCHANGED logFiles
       ELSE /\ peer' = [peer EXCEPT !.pc = "done",
                                    !.logs.items = Append(@, PeerReport)]
            /\ logFiles' = [logFiles EXCEPT ![peer.logFile] = JSONstringify(peer'.logs)]
    /\ UNCHANGED <<now, sweeps, app, config, pc, probe, results, allHealthy, alertReq,
                   alertLog, sinkPosts, logDir, logFile, logs, today, console,
                   rejection, exit>>

NextTwo ==
    \/ RunHealthCheck
    \/ \E t \in Targets : ReqError(t) /\ SmallWorld'
    \/ \E t \in Targets : ReqTimeout(t)
    \/ \E t \in Targets : ReqErrorAfterDestroy(t)
    \/ \E t \in Targets : Response(t) /\ SmallWorld'
    \/ \E t \in Targets : ResData(t)
    \/ \E t \in Targets : ResEnd(t)
    \/ \E t \in Targets : ResAborted(t)
    \/ EventLoopDrained
    \/ \E t \in Targets : Branch(t)
    \/ CheckFrontend
    \/ Overall
    \/ MakeLogDir
    \/ ReadLogFile
    \/ WriteLogFile
    \/ MainThen
    \/ MainCatch
    \/ Midnight
    \/ PeerStart
    \/ PeerRead
    \/ PeerWrite

SpecTwo == InitTwo /\ [][NextTwo]_vars

-----------------------------------------------------------------------------
(* The sweep under the millisecond clock.  Date.now() is `now`; handlers   *)
(* take no time, time passes while runHealthCheck waits for a probe.  The  *)
(* timer of req.setTimeout (line 58) is the idle timer of the socket: it   *)
(* counts from the last activity on the socket (taken here to begin when   *)
(* the request is made) and fires when that is TIMEOUT_MS ago.             *)

InitTime ==
    /\ Init
    /\ config = [backend |-> "usable", frontend |-> "usable", slack_webhook |-> "unset"]
    /\ logDir
    /\ logFiles = [d \in 1..MaxDay |-> NoFile]

\* the request of target t is open
Open(t) == probe[t].req \in {"inflight", "responding"}

\* the idle timer of the open request of target t is due
IdleTimerDue(t) == now - probe[t].activeAt >= TIMEOUT_MS

\* time passes; a timer that is due fires before more time passes
Tick ==
    /\ exit.running
    /\ \E t \in Targets : pc = AwaitPc(t) /\ Open(t)
    /\ \A t \in Targets : Open(t) => ~IdleTimerDue(t)
    /\ now < MaxTicks * TickMs
    /\ now' = now + TickMs
    /\ UNCHANGED <<vars_sweep, sweeps, peer, app>>

\* Date.now() - startTime (lines 35, 52)
Elapsed(t) == now - probe[t].startTime

\* the timers phase of the event loop comes before its I/O events: an event
\* of the socket is handled only when the idle timer is not due
TimedReqError(t) == ~IdleTimerDue(t) /\ ReqErrorAt(t, Elapsed(t))

TimedReqTimeout(t) == IdleTimerDue(t) /\ ReqTimeout(t)

TimedResponse(t) == ~IdleTimerDue(t) /\ ResponseAt(t, Elapsed(t))

TimedResData(t) == ~IdleTimerDue(t) /\ ResData(t)

TimedResEnd(t) == ~IdleTimerDue(t) /\ ResEnd(t)

TimedResAborted(t) == ~IdleTimerDue(t) /\ ResAborted(t)

NextTime ==
    \/ Tick
    \/ RunHealthCheck
    \/ \E t \in Targets : TimedReqError(t)
    \/ \E t \in Targets : TimedReqTimeout(t)
    \/ \E t \in Targets : ReqErrorAfterDestroy(t)
    \/ \E t \in Targets : TimedResponse(t)
    \/ \E t \in Targets : TimedResData(t)
    \/ \E t \in Targets : TimedResEnd(t)
    \/ \E t \in Targets : TimedResAborted(t)
    \/ EventLoopDrained
    \/ \E t \in Targets : Branch(t)
    \/ CheckFrontend
    \/ Overall
    \/ MakeLogDir
    \/ ReadLogFile
    \/ WriteLogFile
    \/ MainThen
    \/ MainCatch

SpecTime == InitTime /\ [][NextTime]_vars

-----------------------------------------------------------------------------
(* What the runtime guarantees to happen.  A continuation of               *)
(* runHealthCheck or of main that is ready runs; a timer that is armed     *)
(* fires when the request stays open; a process with nothing left to wait  *)
(* for ends.  Nothing makes a server or the sink answer.                   *)

InitLive ==
    /\ Init
    /\ config = [backend |-> "usable", frontend |-> "usable", slack_webhook |-> "https"]
    /\ logDir

\* the synchronous steps of runHealthCheck and main
SweepStep ==
    \/ RunHealthCheck
    \/ \E t \in Targets : Branch(t)
    \/ CheckFrontend
    \/ Overall
    \/ MakeLogDir
    \/ ReadLogFile
    \/ WriteLogFile
    \/ MainThen
    \/ MainCatch

RuntimeFairness ==
    /\ WF_vars(SweepStep)
    /\ WF_vars(EventLoopDrained)
    /\ \A t \in Targets : WF_vars(ReqTimeout(t))

SpecLive == InitLive /\ [][Next]_vars /\ RuntimeFairness

-----------------------------------------------------------------------------
(* The task UI (Frontend/App.jsx).  `tasks` is the React state; a handler  *)
(* sees the `tasks` of the render in which the user started it and keeps   *)
(* that array across its await.  The task API is outside src/: it is taken *)
(* to do what the handlers expect of it (POST answers the created task,    *)
(* PUT the updated task, DELETE removes; an unknown id is answered with a  *)
(* status that is not ok).                                                 *)

InitApp ==
    /\ Init
    /\ config = [backend |-> "usable", frontend |-> "usable", slack_webhook |-> "unset"]
    /\ logDir
    /\ logFiles = [d \in 1..MaxDay |-> NoFile]

\* the slot the next operation takes
FreeSlot == CHOOSE slot \in 1..MaxOps :
               /\ app.ops[slot].phase = "none"
               /\ \A other \in 1..MaxOps :
                     app.ops[other].phase = "none" => slot <= other

CanStart ==
    /\ app.started < MaxOps
    /\ \E slot \in 1..MaxOps : app.ops[slot].phase = "none"

\* the handler has sent its request and is at its first await
Started(kind, id, completed) ==
    [app EXCEPT !.started = @ + 1,
                !.ops[FreeSlot] = [NoOp EXCEPT !.phase = "sent", !.kind = kind,
                                               !.id = id, !.completed = completed,
                                               !.seen = app.tasks]]

\* handleSubmit up to its await (lines 37-52)
HandleSubmit ==
    /\ CanStart
    /\ \E titleGiven \in BOOLEAN :
          app' = IF titleGiven THEN Started("create", 0, FALSE)
                 ELSE [app EXCEPT !.error = "Title is required"]
    /\ UNCHANGED <<vars_sweep, now, sweeps, peer>>

\* toggleComplete(task._id, task.completed) up to its await (lines 66-74),
\* from the checkbox of a task on display
ToggleComplete ==
    /\ CanStart
    /\ \E i \in 1..Len(app.tasks) :
          app' = Started("toggle", app.tasks[i].id, app.tasks[i].completed)
    /\ UNCHANGED <<vars_sweep, now, sweeps, peer>>

\* deleteTask(task._id) up to its await (lines 86-92), the user confirming
DeleteTask ==
    /\ CanStart
    /\ \E i \in 1..Len(app.tasks) :
          app' = Started("delete", app.tasks[i].id, FALSE)
    /\ UNCHANGED <<vars_sweep, now, sweeps, peer>>

\* the task the API holds under an id
Stored(id) == {task \in app.server : task.id = id}

\* the API handles the request of a slot and answers
ServerHandles(slot) ==
    LET op == app.ops[slot] IN
    /\ op.phase = "sent"
    /\ app' =
         CASE op.kind = "create" ->
                LET task == [id |-> app.nextId, completed |-> FALSE] IN
                [app EXCEPT !.server = @ \cup {task},
                            !.nextId = @ + 1,
                            !.ops[slot].phase = "answered",
                            !.ops[slot].ok = TRUE,
                            !.ops[slot].reply = task]
           [] Stored(op.id) = {} ->
                [app EXCEPT !.ops[slot].phase = "answered"]
           [] op.kind = "toggle" ->
                LET task == [id |-> op.id, completed |-> ~op.completed] IN
                [app EXCEPT !.server = (@ \ Stored(op.id)) \cup {task},
                            !.ops[slot].phase = "answered",
                            !.ops[slot].ok = TRUE,
                            !.ops[slot].reply = task]
           [] OTHER ->
                [app EXCEPT !.server = @ \ Stored(op.id),
                            !.ops[slot].phase = "answered",
                            !.ops[slot].ok = TRUE]
    /\ UNCHANGED <<vars_sweep, now, sweeps, peer>>

\* setTasks([newTask, ...tasks]) (line 57)
AfterCreate(tasks, newTask) == <<newTask>> \o tasks

\* setTasks(tasks.map(task => task._id === id ? updatedTask : task)) (line 79)
AfterToggle(tasks, id, updatedTask) ==
    [i \in 1..Len(tasks) |-> IF tasks[i].id = id THEN updatedTask ELSE tasks[i]]

\* setTasks(tasks.filter(task => task._id !== id)) (line 96)
AfterDelete(tasks, id) == SelectSeq(tasks, LAMBDA task : task.id # id)

\* the handler resumes with the response (lines 54-63, 76-83, 94-100): a
\* response that is not ok throws into the catch block
HandlerResumes(slot) ==
    LET op == app.ops[slot] IN
    /\ op.phase = "answered"
    /\ app' =
         IF ~op.ok
         THEN [app EXCEPT !.error = "Failed", !.ops[slot] = NoOp]
         ELSE [app EXCEPT
                 !.tasks = CASE op.kind = "create" -> AfterCreate(op.seen, op.reply)
                             [] op.kind = "toggle" -> AfterToggle(op.seen, op.id, op.reply)
                             [] OTHER -> AfterDelete(op.seen, op.id),
                 !.error = IF op.kind = "create" THEN "null" ELSE @,
                 !.ops[slot] = NoOp]
    /\ UNCHANGED <<vars_sweep, now, sweeps, peer>>

NextApp ==
    \/ HandleSubmit
    \/ ToggleComplete
    \/ DeleteTask
    \/ \E slot \in 1..MaxOps : ServerHandles(slot)
    \/ \E slot \in 1..MaxOps : HandlerResumes(slot)

SpecApp == InitApp /\ [][NextApp]_vars

-----------------------------------------------------------------------------
(* Properties *)

\* C1: checkHealth never raises to its caller: whatever the outcome of the
\* GET, a request that is over has left a resolved promise; the promise is
\* never rejected and no exception escapes from a callback.
C1_CheckHealthNeverRaises ==
    /\ exit.cause # "uncaughtException"
    /\ \A t \in Targets :
          /\ probe[t].promise.state # "rejected"
          /\ (probe[t].req \in {"closed", "ended", "destroyed", "hungUp"}
                 => probe[t].promise.state = "resolved")

\* C2: a request that failed at the transport level ('error' event or
\* timeout) resolves with status 0, healthy = false and a non-empty error
\* detail, and the sweep records the target as unhealthy.
C2_TransportFailureDetail ==
    \A t \in Targets :
       LET p == probe[t].promise IN
       (p.state = "resolved" /\ "error" \in DOMAIN p.value)
          => /\ p.value.status = 0
             /\ ~p.value.healthy
             /\ p.value.error # ""
             /\ (t \in DOMAIN results.checks => ~results.checks[t].healthy)

\* C3: a liveness target (backend) that answered 200 with a body that is not
\* well-formed JSON is unhealthy, with an error detail that is present and
\* is not a transport-failure detail.
C3_MalformedBodyUnhealthy ==
    LET p == probe["backend"] IN
    (p.req = "ended" /\ p.statusCode = 200 /\ p.data \notin WellFormedBodies)
       => /\ p.promise.state = "resolved"
          /\ ~p.promise.value.healthy
          /\ ErrorOf(p.promise.value) \notin TransportDetails \cup {"undefined"}

\* C4: the reachability target (frontend) gets a health record for every
\* response, healthy exactly when the status code is 200, whatever the body.
C4_FrontendHealthyIff200 ==
    LET p == probe["frontend"] IN
    p.req = "ended"
       => /\ p.promise.state = "resolved"
          /\ (p.promise.value.healthy <=> p.statusCode = 200)

\* C5: a liveness target (backend) that answered 200 with a well-formed JSON
\* body is healthy; the uptime and environment kept in its record are the
\* body's values, or absent when the body has none, and reading them raises
\* no error.
C5_WellFormedBodyHealthy ==
    /\ rejection # "TypeError"
    /\ LET p == probe["backend"] IN
       (p.req = "ended" /\ p.statusCode = 200 /\ p.data \in WellFormedBodies)
          => /\ p.promise.state = "resolved"
             /\ p.promise.value.healthy
             /\ Prop(p.promise.value.data, "\"uptime\"") = BodyField(p.data, "\"uptime\"")
             /\ Prop(p.promise.value.data, "\"environment\"")
                   = BodyField(p.data, "\"environment\"")
             /\ ("backend" \in DOMAIN results.checks
                    => results.checks["backend"] = p.promise.value)

C5_Witness ==
    /\ pc = "frontendStart"
    /\ probe["backend"].req = "ended"
    /\ probe["backend"].statusCode = 200
    /\ probe["backend"].data = FullBody
    /\ results.checks["backend"].healthy
    /\ Prop(results.checks["backend"].data, "\"uptime\"") = "3600"
    /\ Prop(results.checks["backend"].data, "\"environment\"") = "\"production\""

\* C6: a response whose status code is not 200 makes the target unhealthy,
\* whatever its body, and the record carries the status code received.
C6_Non200Unhealthy ==
    \A t \in Targets :
       LET p == probe[t] IN
       (p.req = "ended" /\ p.statusCode # 200)
          => /\ p.promise.state = "resolved"
             /\ ~p.promise.value.healthy
             /\ p.promise.value.status = p.statusCode
             /\ (pc = AfterPc(t) => results.checks[t].status = p.statusCode)

\* C7: once computed, the overall-healthy value is true iff the backend
\* check and the frontend check of the report are both healthy, and the
\* report stored in the log is that report.
C7_OverallIffEveryHealthy ==
    /\ AfterOverall
          => /\ DOMAIN results.checks = Targets
             /\ (allHealthy <=> (results.checks["backend"].healthy
                                   /\ results.checks["frontend"].healthy))
    /\ SweepReturned
          => LET items == logFiles[logFile].doc.items IN
             /\ Len(items) > 0
             /\ items[Len(items)] = StringifyReport(results)

C7_Witness ==
    /\ pc = "returned"
    /\ ~allHealthy
    /\ results.checks["backend"].healthy
    /\ ~results.checks["frontend"].healthy

\* C8: the process exits with code 0 iff the sweep completed with every
\* target healthy, and with code 1 when a target is unhealthy.
C8_ExitCodeIffHealthy ==
    ~exit.running
       => /\ (exit.code = 0
                <=> /\ SweepReturned
                    /\ DOMAIN results.checks = Targets
                    /\ \A t \in Targets : results.checks[t].healthy)
          /\ ((\E t \in DOMAIN results.checks : ~results.checks[t].healthy)
                => exit.code = 1)

\* C9: a persistence failure ends the process with an exit code different
\* from the exit code of a sweep that completed with an unhealthy target.
C9_PersistenceFailureDistinct ==
    (~exit.running /\ rejection \in PersistenceFailures)
       => exit.code # ThenExitCode(FALSE)

\* C9 (amended): a persistence failure ends the process with exit code 1,
\* the exit code of a sweep that completed with an unhealthy target, after
\* "Health check failed:" was written to stderr; a sweep that completed
\* never writes that line.
C9_PersistenceFailureExit ==
    /\ (~exit.running /\ rejection \in PersistenceFailures)
          => /\ exit.code = ThenExitCode(FALSE)
             /\ exit.cause = "catch"
             /\ console[Len(console)].stream = "stderr"
             /\ console[Len(console)].text = "Health check failed:"
    /\ (~exit.running /\ exit.cause = "then")
          => \A i \in 1..Len(console) : console[i].text # "Health check failed:"

C9_Witness ==
    /\ ~exit.running
    /\ rejection = "writeFileSync failed"
    /\ DOMAIN results.checks = Targets
    /\ \A t \in Targets : results.checks[t].healthy
    /\ exit.code = 1

\* C10: within one sweep sendAlert is invoked exactly once for each target
\* whose record is unhealthy and never for a target whose record is healthy
\* or that has no record yet.
C10_OneAlertPerUnhealthy ==
    \A t \in Targets :
       AlertCount(t) = IF t \in DOMAIN results.checks /\ ~results.checks[t].healthy
                       THEN 1 ELSE 0

C10_Witness ==
    /\ pc = "overall"
    /\ ErrorOf(results.checks["backend"]) = "Timeout"
    /\ results.checks["frontend"].healthy
    /\ AlertCount("backend") = 1
    /\ AlertCount("frontend") = 0

\* lines of stderr that report a failed delivery (line 99)
DeliveryFailureLines ==
    Cardinality({i \in 1..Len(console) :
                    /\ console[i].stream = "stderr"
                    /\ console[i].text = "Failed to send Slack alert:"})

\* the sink's answer is a success
Is2xx(statusCode) == statusCode \in 200..299

\* the latest POST is over and the alert did not reach the sink's channel
DeliveryFailed ==
    \/ alertReq.state = "failed"
    \/ (alertReq.state = "responded" /\ ~Is2xx(alertReq.statusCode))

\* C11: every alert delivery failure, a network error as well as a non-2xx
\* response of the sink, is caught and logged: when sendAlert has returned
\* from a failed delivery, the last line of the console is the stderr line
\* "Failed to send Slack alert:".
C11_DeliveryFailureLogged ==
    (DeliveryFailed /\ pc \in {"frontendStart", "overall"}
                    /\ alertLog # <<>>
                    /\ pc = AfterPc(alertLog[Len(alertLog)].target))
       => /\ console[Len(console)].stream = "stderr"
          /\ console[Len(console)].text = "Failed to send Slack alert:"

\* the sweep is inside `await sendAlert(...)` (lines 133, 148)
AlertWaits == {"awaitBackendAlert", "awaitFrontendAlert"}

\* every target's probe resolved healthy
ProbesHealthy == \A t \in Targets : probe[t].promise.value.healthy

\* a step of sendAlert: the call from the branch of an unhealthy target, or
\* the end of its await
AlertStep ==
    /\ exit.running
    /\ \/ pc \in AlertWaits
       \/ \E t \in Targets : pc = BranchPc(t) /\ ~probe[t].promise.value.healthy

\* C12: the outcome of an alert delivery changes nothing of the sweep's
\* outcome: the recorded check results are the results the probes resolved
\* with, the overall-healthy value and the exit code are those of the probe
\* results alone, and no step of sendAlert rejects runHealthCheck, ends the
\* process or touches a result already recorded.
C12_AlertOutcomeIsolated ==
    /\ [](\A t \in DOMAIN results.checks : results.checks[t] = probe[t].promise.value)
    /\ [](AfterOverall => (allHealthy <=> ProbesHealthy))
    /\ []((~exit.running /\ exit.cause = "then") => exit.code = ThenExitCode(ProbesHealthy))
    /\ [][AlertStep
            => /\ rejection' = rejection
               /\ exit' = exit
               /\ allHealthy' = allHealthy
               /\ pc' \notin {"rejected", "exited"}
               /\ \A t \in DOMAIN results.checks : results'.checks[t] = results.checks[t]
         ]_vars

C12_Witness ==
    /\ ~exit.running
    /\ exit.cause = "then"
    /\ exit.code = 1
    /\ alertReq.state = "failed"
    /\ ~results.checks["backend"].healthy
    /\ results.checks["frontend"].healthy

\* number of "ALERT" lines on the console (line 72)
AlertLines ==
    Cardinality({i \in 1..Len(console) : console[i].text = "ALERT"})

\* C13: with no alert sink URL configured sendAlert is a no-op that is not
\* an error: no request is ever issued, nothing about a failed delivery is
\* logged, runHealthCheck is not rejected by it, and the sweep goes on as
\* with a sink: each alert is still printed, sendAlert returns at once and
\* the sweep never waits for it.
C13_NoSinkNoOp ==
    config.slack_webhook = "unset"
       => /\ sinkPosts = 0
          /\ alertReq = NoAlert
          /\ DeliveryFailureLines = 0
          /\ pc \notin AlertWaits
          /\ AlertLines = Len(alertLog)
          /\ rejection \in {"none", "TypeError", "ERR_INVALID_URL"} \cup PersistenceFailures
          /\ \A t \in DOMAIN results.checks : results.checks[t] = probe[t].promise.value

C13_Witness ==
    /\ config.slack_webhook = "unset"
    /\ SweepReturned
    /\ AlertCount("backend") = 1
    /\ AlertCount("frontend") = 1
    /\ sinkPosts = 0

\* the report of this sweep is the last one of the partition it wrote
ReportRecorded ==
    /\ SweepReturned
    /\ logFiles[logFile].kind = "json"
    /\ LET items == logFiles[logFile].doc.items IN
       /\ Len(items) > 0
       /\ items[Len(items)] = StringifyReport(results)

\* C17: whatever the outcomes of the two probes, a sweep that is over either
\* was ended by a persistence failure or has recorded a report with exactly
\* one check result for each of backend and frontend.
C17_EveryOutcomeRecorded ==
    ~exit.running
       => \/ rejection \in PersistenceFailures
          \/ (ReportRecorded /\ DOMAIN results.checks = Targets)

\* checkHealth of target t has resolved and its result is in the report
ProbeDone(t) ==
    /\ probe[t].promise.state = "resolved"
    /\ t \in DOMAIN results.checks

\* lines 162-175 have been entered
RecorderReached ==
    \/ pc \in {"mkdir", "read", "write"}
    \/ SweepReturned
    \/ (pc \in {"rejected", "exited"} /\ rejection \in PersistenceFailures)

\* C18: the events of a sweep occur in order: the frontend probe starts only
\* when the backend probe has resolved and the backend alert, if any, is
\* over; the recorder is entered only when both probes have resolved and no
\* alert is in flight; the log is read only in the read step and written only
\* in the write step that follows it, never again afterwards; the exit code
\* of a completed sweep is decided when the report is in the log.
C18_SweepOrder ==
    /\ [](probe["frontend"].req # "none"
             => /\ ProbeDone("backend")
                /\ (pc = "awaitFrontend" => alertReq.state # "inflight"))
    /\ [](RecorderReached
             => /\ \A t \in Targets : ProbeDone(t)
                /\ alertReq.state # "inflight")
    /\ []((~exit.running /\ exit.cause = "then") => ReportRecorded)
    /\ [][logs' # logs => pc \in {"read", "write"}]_vars
    /\ [][logFiles' # logFiles
            => /\ pc = "write"
               /\ pc' \in {"returned", "rejected"}
               /\ \A t \in Targets : ProbeDone(t)]_vars
    /\ [][(pc \in {"returned", "rejected", "exited"})
            => (logFiles' = logFiles /\ logs' = logs)]_vars

C18_Witness ==
    /\ ~exit.running
    /\ exit.cause = "then"
    /\ ReportRecorded
    /\ alertReq.state = "responded"
    /\ sinkPosts = 2

\* sweeps that completed having written the partition of day d
CompletedOn(d) ==
    sweeps.completed[d] + (IF SweepReturned /\ logFile = d THEN 1 ELSE 0)

\* the reports of a partition, none when the file does not exist
ReportsOf(f) == IF f.kind = "json" THEN f.doc.items ELSE <<>>

\* C14: with sweeps that run one after the other, a partition holds as many
\* reports as sweeps completed on it; the write of a completed sweep appends
\* its report to the reports the partition held, which stay as they were and
\* in order, and touches no other partition; no other step of a sweep that
\* completes changes a partition; parsing a partition and writing it back
\* gives the same text.
C14_AppendLaw ==
    /\ [](\A d \in 1..MaxDay :
             /\ logFiles[d].kind = "absent" => CompletedOn(d) = 0
             /\ logFiles[d].kind = "json"
                   => /\ Len(logFiles[d].doc.items) = CompletedOn(d)
                      /\ JSONstringify(JSONparseFile(logFiles[d]).value) = logFiles[d])
    /\ [][(pc = "write" /\ pc' = "returned")
            => /\ logFiles'[logFile].kind = "json"
               /\ logFiles'[logFile].doc.items
                     = Append(ReportsOf(logFiles[logFile]), StringifyReport(results))
               /\ \A d \in 1..MaxDay : d # logFile => logFiles'[d] = logFiles[d]
         ]_vars
    /\ [][logFiles' # logFiles => pc = "write"]_vars

C14_Witness ==
    /\ sweeps.started = 2
    /\ SweepReturned
    /\ logFile = 1
    /\ Len(logFiles[1].doc.items) = 2
    /\ logFiles[1].doc.items[1].checks["backend"].healthy
    /\ logFiles[1].doc.items[1].checks["backend"].data = StatusBody
    /\ logFiles[1].doc.items[2].checks["backend"].status = 0

\* both processes have written the same partition
BothWrote ==
    /\ SweepReturned
    /\ peer.pc = "done"
    /\ logFile = peer.logFile

\* each process read the partition before the other wrote it: both arrays
\* are the reports that were there plus the process's own report
ReadsOverlapped == Len(logs.items) = Len(peer.logs.items)

\* C20: two processes writing the same day partition lose an update: when
\* both have written and each had read the partition before the other wrote
\* it, the partition is the array of the last writer, the reports that were
\* there plus one report, so one of the two reports is missing; when the
\* second read came after the first write, both reports are there.
C20_LostUpdate ==
    BothWrote
       => LET items == logFiles[logFile].doc.items IN
          IF ReadsOverlapped
          THEN /\ Len(items) = Len(logs.items)
               /\ logFiles[logFile] \in {JSONstringify(logs), JSONstringify(peer.logs)}
          ELSE /\ Len(items) = Len(logs.items) + 1 \/ Len(items) = Len(peer.logs.items) + 1
               /\ {items[Len(items)], items[Len(items) - 1]}
                     = {StringifyReport(results), StringifyReport(PeerReport)}

\* both sweeps have finished and the report of the second process is lost
C20_Witness ==
    /\ ~exit.running
    /\ exit.cause = "then"
    /\ BothWrote
    /\ ReadsOverlapped
    /\ results.checks["backend"].healthy
    /\ logFiles[logFile] = JSONstringify(logs)
    /\ \A i \in 1..Len(logFiles[logFile].doc.items) :
          logFiles[logFile].doc.items[i] # StringifyReport(PeerReport)

\* C15: a checkHealth invocation resolves no later than the timeout after
\* the request started: a probe still pending is never older than
\* TIMEOUT_MS.
C15_ResolvesWithinTimeout ==
    \A t \in Targets :
       probe[t].promise.state = "pending" => Elapsed(t) <= TIMEOUT_MS

\* C19: the elapsed time of a probe result is the time from the start of
\* the request to the moment the probe resolved, never more than the
\* timeout, and the timeout itself in the timeout case.
C19_ElapsedIsTimeToResolution ==
    \A t \in Targets :
       pc = BranchPc(t)
          => LET r == probe[t].promise.value IN
             /\ r.responseTime = Elapsed(t)
             /\ r.responseTime <= TIMEOUT_MS
             /\ (ErrorOf(r) = "Timeout" => r.responseTime = TIMEOUT_MS)

\* C16: an alert delivery problem never blocks the sweep: whenever the sweep
\* waits for the sink after an unhealthy backend, it eventually goes on to
\* probe the frontend, whether the sink fails, rejects or never responds.
C16_AlertNeverBlocks ==
    (pc = "awaitBackendAlert") ~> (probe["frontend"].req # "none")

\* the last report of the partition of day d shows target t unhealthy
LastReportUnhealthy(d, t) ==
    /\ logFiles[d].kind = "json"
    /\ Len(logFiles[d].doc.items) > 0
    /\ ~logFiles[d].doc.items[Len(logFiles[d].doc.items)].checks[t].healthy

\* C21: alerts are not de-duplicated across sweeps: in every run of the
\* script, whatever the earlier runs recorded or dispatched, sendAlert is
\* invoked once for each target recorded unhealthy and not otherwise, and
\* with a sink configured each invocation hands one POST to the sink.
C21_AlertEverySweep ==
    /\ \A t \in Targets :
          AlertCount(t) = IF t \in DOMAIN results.checks /\ ~results.checks[t].healthy
                          THEN 1 ELSE 0
    /\ sinkPosts = Len(alertLog)
    /\ Len(alertLog) = AlertLines

\* the second run finds the backend unhealthy as the first run did, and
\* alerts again
C21_Witness ==
    /\ sweeps.started = 2
    /\ pc = "frontendStart"
    /\ today = 1
    /\ LastReportUnhealthy(1, "backend")
    /\ ~results.checks["backend"].healthy
    /\ AlertCount("backend") = 1
    /\ sinkPosts = 1

\* C22: the result of a checkHealth call is fixed by the first of its events
\* that resolves: a promise that is resolved keeps its value at every later
\* step, the 'error' that follows req.destroy() included; runHealthCheck
\* resumes once per call, at the step that resolves the pending promise, and
\* a check result once recorded stays as it is.
C22_FirstEventWins ==
    [][\A t \in Targets :
          /\ probe[t].promise.state = "resolved"
                => probe'[t].promise = probe[t].promise
          /\ t \in DOMAIN results.checks
                => /\ t \in DOMAIN results'.checks
                   /\ results'.checks[t] = results.checks[t]
          /\ (pc' = BranchPc(t) /\ pc # BranchPc(t))
                => /\ probe[t].promise.state = "pending"
                   /\ probe'[t].promise.state = "resolved"
      ]_vars

\* the timeout resolved the backend probe, the 'error' of the destroyed
\* request came afterwards, and the result is still the timeout's
C22_Witness ==
    /\ probe["backend"].req = "hungUp"
    /\ probe["backend"].promise.value = TimeoutResult
    /\ results.checks["backend"] = TimeoutResult
    /\ AlertCount("backend") = 1

\* C23: every report stored in the partition of day d carries a timestamp
\* of day d.
C23_TimestampOnPartitionDay ==
    \A d \in 1..MaxDay :
       logFiles[d].kind = "json"
          => \A i \in 1..Len(logFiles[d].doc.items) :
                logFiles[d].doc.items[i].timestamp = d

\* C24: every result checkHealth resolves with is healthy iff its status is
\* 200, has status 0 iff it has an error detail, and is not healthy when it
\* has an error detail.
C24_ResultShape ==
    \A t \in Targets :
       probe[t].promise.state = "resolved"
          => LET r == probe[t].promise.value IN
             /\ r.healthy <=> r.status = 200
             /\ r.status = 0 <=> "error" \in DOMAIN r
             /\ "error" \in DOMAIN r => ~r.healthy

\* a 404 and a refused connection, both resolved
C24_Witness ==
    /\ probe["backend"].promise.state = "resolved"
    /\ probe["backend"].promise.value.status = 404
    /\ probe["frontend"].promise.state = "resolved"
    /\ ErrorOf(probe["frontend"].promise.value) = "connect ECONNREFUSED"

\* no operation of the task UI is in flight
AppQuiet == \A slot \in 1..MaxOps : app.ops[slot].phase = "none"

\* the tasks on display
Displayed == {app.tasks[i] : i \in 1..Len(app.tasks)}

\* C25: once the responses of the operations started in the task UI have
\* been applied, the list on display is the API's list, each task once.
C25_ConcurrentOpsKept ==
    AppQuiet
       => /\ Displayed = app.server
          /\ Len(app.tasks) = Cardinality(app.server)

====
